---- MODULE Spec2Model ----
(***************************************************************************)
(* hop-kak: generation of prefix-free hint labels for a list of selections *)
(* (Trie::grow / Trie::labels / App::generate_labels) and the reduction of *)
(* the (selection, label) candidates by one typed key per invocation       *)
(* (App::reduce, Response::into_stdout), as written in src/src/main.rs.    *)
(*                                                                         *)
(* A String is a sequence of one-character strings.                        *)
(***************************************************************************)
EXTENDS Naturals, Sequences, FiniteSets

VARIABLES keyset,   \* App.keyset : Vec<char>
          sels,     \* App.sels   : Vec<Sel>
          labels,   \* App.labels : Vec<String>
          key,      \* App.key    : Option<String>
          pc,       \* position of the invocation: "main", "exited", "panicked"
          panic,    \* why the process died, "none" while it has not
          trie,     \* the local `trie` of generate_labels
          grown,    \* completed iterations of the loop of grow_repeatedly
          resp,     \* the Response returned by App::process
          out,      \* the commands into_stdout printed, in order
          onkey,    \* the on-key callback the editor holds (its text)
          origin,   \* history: the generation result this session started from
          nkeys     \* history: keys typed while more than one candidate remained

vars == <<keyset, sels, labels, key, pc, panic, trie, grown, resp, out, onkey, origin,
          nkeys>>

----------------------------------------------------------------------------
(* Bounds of the model. *)
MaxK == 4        \* longest keyset
MaxDupK == 2     \* longest keyset that may repeat a symbol
MaxN == 10       \* most selections handed to a generation
MaxCand == 2     \* most labels handed directly to a reduction
MaxKeys == 8     \* most keys counted in one session

Symbols == {"a", "b", "c", "d"}

\* The recursion depth the stack holds.  Any limit above the height of every
\* tree the model builds separates bounded from unbounded recursion.
StackLimit == MaxN + 2

----------------------------------------------------------------------------
(* Option<String>::None for App.key *)
NoKey == [some |-> FALSE, v |-> <<>>]
SomeKey(k) == [some |-> TRUE, v |-> k]

(* the literal "<esc>" compared against in App::reduce *)
ESC == <<"<", "e", "s", "c", ">">>

(* Trie::default() and Trie::new(key) *)
TrieDefault == [key |-> " ", below |-> <<>>]

(* Trie::new dropping its key for the default one *)
TrieNewBlank(c) == [key |-> " ", below |-> <<>>]

TrieNew(c) == [key |-> c, below |-> <<>>]

(* RFind searching from the front, as .find() would *)
RFindFirst(below, k) ==
  LET S == {i \in 1..Len(below) : Len(below[i].below) < k}
  IN IF S = {} THEN 0 ELSE CHOOSE i \in S : \A j \in S : i <= j

(* .iter_mut().rfind(|node| node.below.len() < keyset.len()): the index of  *)
(* the last child with room, 0 for None                                     *)
RFind(below, k) ==
  LET S == {i \in 1..Len(below) : Len(below[i].below) < k}
  IN IF S = {} THEN 0 ELSE CHOOSE i \in S : \A j \in S : j <= i

RECURSIVE grow(_, _, _)
(* grow taking the hints of a node from the end of the keyset *)
growHintFromEnd(self, ks, d) ==
  IF d > StackLimit THEN [st |-> "overflow", t |-> self]
  ELSE IF Len(self.below) < Len(ks)
  THEN [st |-> "ok",
        t |-> [self EXCEPT !.below = Append(@, TrieNew(ks[Len(ks) - Len(self.below)]))]]
  ELSE LET idx == RFind(self.below, Len(ks))
       IN IF idx # 0
          THEN LET node == self.below[idx]
                   r1 == IF node.below = <<>>
                         THEN grow(node, ks, d + 1)
                         ELSE [st |-> "ok", t |-> node]
                   r2 == IF r1.st = "ok" THEN grow(r1.t, ks, d + 1) ELSE r1
               IN [st |-> r2.st, t |-> [self EXCEPT !.below[idx] = r2.t]]
          ELSE IF Len(self.below) = 0
          THEN [st |-> "underflow", t |-> self]
          ELSE LET i == Len(self.below)
                   r == grow(self.below[i], ks, d + 1)
               IN [st |-> r.st, t |-> [self EXCEPT !.below[i] = r.t]]

(* grow falling back to the first child when no child has room *)
growFallbackFirst(self, ks, d) ==
  IF d > StackLimit THEN [st |-> "overflow", t |-> self]
  ELSE IF Len(self.below) < Len(ks)
  THEN [st |-> "ok",
        t |-> [self EXCEPT !.below = Append(@, TrieNew(ks[Len(self.below) + 1]))]]
  ELSE LET idx == RFind(self.below, Len(ks))
       IN IF idx # 0
          THEN LET node == self.below[idx]
                   r1 == IF node.below = <<>>
                         THEN grow(node, ks, d + 1)
                         ELSE [st |-> "ok", t |-> node]
                   r2 == IF r1.st = "ok" THEN grow(r1.t, ks, d + 1) ELSE r1
               IN [st |-> r2.st, t |-> [self EXCEPT !.below[idx] = r2.t]]
          ELSE IF Len(self.below) = 0
          THEN [st |-> "underflow", t |-> self]
          ELSE LET r == grow(self.below[1], ks, d + 1)
               IN [st |-> r.st, t |-> [self EXCEPT !.below[1] = r.t]]

(* grow without the first of the two growths of an old leaf *)
growOnce(self, ks, d) ==
  IF d > StackLimit THEN [st |-> "overflow", t |-> self]
  ELSE IF Len(self.below) < Len(ks)
  THEN [st |-> "ok",
        t |-> [self EXCEPT !.below = Append(@, TrieNew(ks[Len(self.below) + 1]))]]
  ELSE LET idx == RFind(self.below, Len(ks))
       IN IF idx # 0
          THEN LET r2 == grow(self.below[idx], ks, d + 1)
               IN [st |-> r2.st, t |-> [self EXCEPT !.below[idx] = r2.t]]
          ELSE IF Len(self.below) = 0
          THEN [st |-> "underflow", t |-> self]
          ELSE LET i == Len(self.below)
                   r == grow(self.below[i], ks, d + 1)
               IN [st |-> r.st, t |-> [self EXCEPT !.below[i] = r.t]]

(* Trie::grow.  d is the depth of the call; the result is the grown node,  *)
(* or how the call died: "underflow" at `self.below.len() - 1` on an empty *)
(* vector, "overflow" when the recursion exceeds the stack.                 *)
grow(self, ks, d) ==
  IF d > StackLimit THEN [st |-> "overflow", t |-> self]
  ELSE IF Len(self.below) < Len(ks)
  THEN [st |-> "ok",
        t |-> [self EXCEPT !.below = Append(@, TrieNew(ks[Len(self.below) + 1]))]]
  ELSE LET idx == RFind(self.below, Len(ks))
       IN IF idx # 0
          THEN LET node == self.below[idx]
                   r1 == IF node.below = <<>>
                         THEN grow(node, ks, d + 1)
                         ELSE [st |-> "ok", t |-> node]
                   r2 == IF r1.st = "ok" THEN grow(r1.t, ks, d + 1) ELSE r1
               IN [st |-> r2.st, t |-> [self EXCEPT !.below[idx] = r2.t]]
          ELSE IF Len(self.below) = 0
          THEN [st |-> "underflow", t |-> self]
          ELSE LET i == Len(self.below)
                   r == grow(self.below[i], ks, d + 1)
               IN [st |-> r.st, t |-> [self EXCEPT !.below[i] = r.t]]

RECURSIVE labels_(_, _), labels_below(_, _, _)
(* labels_below visiting the children from the last to the first *)
labels_belowRev(below, path, i) ==
  IF i > Len(below) THEN <<>>
  ELSE labels_below(below, path, i + 1) \o labels_(below[i], path)

(* the `for below in &self.below` loops of labels and labels_ *)
labels_below(below, path, i) ==
  IF i > Len(below) THEN <<>>
  ELSE labels_(below[i], path) \o labels_below(below, path, i + 1)

(* labels_ pushing the path of every node, not of the leaves alone *)
labels_EveryNode(self, path) ==
  LET p == Append(path, self.key)
  IN <<p>> \o labels_below(self.below, p, 1)

(* Trie::labels_ : the paths pushed for this node *)
labels_(self, path) ==
  LET p == Append(path, self.key)
  IN IF self.below = <<>> THEN <<p>> ELSE labels_below(self.below, p, 1)

(* Trie::labels : the root's key is left out *)
TrieLabels(t) == labels_below(t.below, <<>>, 1)

(* ReplaceRange::new *)
ReplaceRange(sel, label) == [sel |-> sel, label |-> label]

Min(a, b) == IF a < b THEN a ELSE b

(* .zip(): as long as the shorter of the two *)
ZipLen(xs, ys) == Min(Len(xs), Len(ys))

(* LabelsGenerated zipping the labels with the selections back to front *)
LabelsGeneratedRev(t, ss) ==
  LET ls == TrieLabels(t)
  IN [kind |-> "LabelsGenerated",
      replace_ranges |->
        [i \in 1..ZipLen(ls, ss) |-> ReplaceRange(ss[Len(ss) + 1 - i], ls[i])]]

(* App::generate_labels, after the growth: labels zipped with sels *)
LabelsGenerated(t, ss) ==
  LET ls == TrieLabels(t)
  IN [kind |-> "LabelsGenerated",
      replace_ranges |-> [i \in 1..ZipLen(ls, ss) |-> ReplaceRange(ss[i], ls[i])]]

(* StripPrefix handing back the whole label on a match *)
StripPrefixKeep(label, k) ==
  IF Len(k) <= Len(label) /\ SubSeq(label, 1, Len(k)) = k
  THEN [some |-> TRUE, v |-> label]
  ELSE [some |-> FALSE, v |-> <<>>]

(* str::strip_prefix *)
StripPrefix(label, k) ==
  IF Len(k) <= Len(label) /\ SubSeq(label, 1, Len(k)) = k
  THEN [some |-> TRUE, v |-> SubSeq(label, Len(k) + 1, Len(label))]
  ELSE [some |-> FALSE, v |-> <<>>]

RECURSIVE FilterMapStrip(_, _, _, _)
(* FilterMapStrip collecting the survivors back to front *)
FilterMapStripRev(ss, ls, k, i) ==
  IF i > ZipLen(ss, ls) THEN <<>>
  ELSE LET s == StripPrefix(ls[i], k)
           rest == FilterMapStrip(ss, ls, k, i + 1)
       IN IF s.some THEN rest \o <<ReplaceRange(ss[i], s.v)>> ELSE rest

(* FilterMapStrip keeping, unchanged, the candidates that do not match *)
FilterMapStripAll(ss, ls, k, i) ==
  IF i > ZipLen(ss, ls) THEN <<>>
  ELSE LET s == StripPrefix(ls[i], k)
           rest == FilterMapStrip(ss, ls, k, i + 1)
       IN <<ReplaceRange(ss[i], IF s.some THEN s.v ELSE ls[i])>> \o rest

(* sels.into_iter().zip(labels).filter_map(..).collect() from pair i on *)
FilterMapStrip(ss, ls, k, i) ==
  IF i > ZipLen(ss, ls) THEN <<>>
  ELSE LET s == StripPrefix(ls[i], k)
           rest == FilterMapStrip(ss, ls, k, i + 1)
       IN IF s.some THEN <<ReplaceRange(ss[i], s.v)>> \o rest ELSE rest

(* Reduce without the early return on "<esc>" *)
ReduceNoEsc(ss, ls, k) ==
  [kind |-> "Reduced", replace_ranges |-> FilterMapStrip(ss, ls, k, 1)]

(* App::reduce *)
Reduce(ss, ls, k) ==
  IF k = ESC THEN [kind |-> "Cleanup", replace_ranges |-> <<>>]
  ELSE [kind |-> "Reduced", replace_ranges |-> FilterMapStrip(ss, ls, k, 1)]

----------------------------------------------------------------------------
(* The text of the on-key callback and its way back through the command    *)
(* line: labels are joined with " " and App::new splits them again.        *)

RECURSIVE Join(_)
(* [String].join(" ") *)
Join(words) ==
  IF words = <<>> THEN <<>>
  ELSE IF Len(words) = 1 THEN words[1]
  ELSE words[1] \o <<" ">> \o Join(Tail(words))

RECURSIVE SplitFrom(_, _, _)
(* str::split_whitespace: the maximal runs without a blank; cur is the run  *)
(* being read                                                               *)
SplitFrom(s, i, cur) ==
  IF i > Len(s) THEN (IF cur = <<>> THEN <<>> ELSE <<cur>>)
  ELSE IF s[i] = " "
       THEN (IF cur = <<>> THEN <<>> ELSE <<cur>>) \o SplitFrom(s, i + 1, <<>>)
       ELSE SplitFrom(s, i + 1, Append(cur, s[i]))

SplitWhitespace(s) == SplitFrom(s, 1, <<>>)

RECURSIVE SplitOn(_, _, _, _)
(* str::split(sep): the pieces between separators, empty ones included *)
SplitOn(s, sep, i, cur) ==
  IF i > Len(s) THEN <<cur>>
  ELSE IF s[i] = sep
       THEN <<cur>> \o SplitOn(s, sep, i + 1, <<>>)
       ELSE SplitOn(s, sep, i + 1, Append(cur, s[i]))

DigitChars == <<"0", "1", "2", "3", "4", "5", "6", "7", "8", "9">>

RECURSIVE Decimal(_)
(* Display for usize *)
Decimal(n) ==
  IF n < 10 THEN <<DigitChars[n + 1]>>
  ELSE Decimal(n \div 10) \o <<DigitChars[(n % 10) + 1]>>

IsDigit(c) == \E d \in 1..10 : DigitChars[d] = c
DigitValue(c) == (CHOOSE d \in 1..10 : DigitChars[d] = c) - 1

RECURSIVE ParseDigits(_, _, _)
ParseDigits(s, i, acc) ==
  IF i > Len(s) THEN acc ELSE ParseDigits(s, i + 1, acc * 10 + DigitValue(s[i]))

(* str::parse::<usize> on a string of decimal digits *)
ParseUsize(s) ==
  IF s # <<>> /\ \A i \in 1..Len(s) : IsDigit(s[i])
  THEN [ok |-> TRUE, v |-> ParseDigits(s, 1, 0)]
  ELSE [ok |-> FALSE, v |-> 0]

(* Pos::from_str *)
PosFromStr(s) ==
  LET parts == SplitOn(s, ".", 1, <<>>)
      line == ParseUsize(parts[1])
      col == IF Len(parts) >= 2 THEN ParseUsize(parts[2]) ELSE [ok |-> FALSE, v |-> 0]
  IN [ok |-> line.ok /\ col.ok, v |-> [line |-> line.v, col |-> col.v]]

(* Sel::from_str *)
SelFromStr(s) ==
  LET parts == SplitOn(s, ",", 1, <<>>)
      start == PosFromStr(parts[1])
      end == IF Len(parts) >= 2 THEN PosFromStr(parts[2])
             ELSE [ok |-> FALSE, v |-> [line |-> 0, col |-> 0]]
  IN [ok |-> start.ok /\ end.ok, v |-> [start |-> start.v, end |-> end.v]]

(* Sel::to_str *)
SelToStr(sel) ==
  Decimal(sel.start.line) \o <<".">> \o Decimal(sel.start.col) \o <<",">>
    \o Decimal(sel.end.line) \o <<".">> \o Decimal(sel.end.col)

(* the selection of one character at the start of line n *)
Sel(n) == [start |-> [line |-> n, col |-> 1], end |-> [line |-> n, col |-> 1]]

(* Response::display_reduce_callback: nothing but the cleanup for exactly   *)
(* one range, the on-key command with the joined sels and labels otherwise  *)
DisplayReduceCallback(rr) ==
  IF Len(rr) = 1
  THEN [cmds |-> <<"cleanup">>, onkey |-> [set |-> FALSE, sels |-> <<>>, labels |-> <<>>]]
  ELSE [cmds |-> <<"on-key">>,
        onkey |-> [set |-> TRUE,
                   sels |-> Join([i \in 1..Len(rr) |-> SelToStr(rr[i].sel)]),
                   labels |-> Join([i \in 1..Len(rr) |-> rr[i].label])]]

(* Response::into_stdout: the commands printed and the callback left *)
IntoStdout(r) ==
  IF r.kind = "Cleanup"
  THEN [cmds |-> <<"cleanup">>, onkey |-> [set |-> FALSE, sels |-> <<>>, labels |-> <<>>]]
  ELSE LET cb == DisplayReduceCallback(r.replace_ranges)
       IN IF r.kind = "LabelsGenerated"
          THEN [cmds |-> <<"cleanup", "add-highlighter", "set-option">> \o cb.cmds,
                onkey |-> cb.onkey]
          ELSE [cmds |-> <<"set-option", "set-register", "execute-keys">> \o cb.cmds,
                onkey |-> cb.onkey]

(* App::new on the callback's --sels and --labels *)
RECURSIVE FilterMapSel(_, _)
(* .filter_map(|sel| sel.parse::<Sel>().ok()) from word i on *)
FilterMapSel(w, i) ==
  IF i > Len(w) THEN <<>>
  ELSE LET r == SelFromStr(w[i])
       IN (IF r.ok THEN <<r.v>> ELSE <<>>) \o FilterMapSel(w, i + 1)

ParseSels(s) == FilterMapSel(SplitWhitespace(s), 1)
ParseLabels(s) == SplitWhitespace(s)

----------------------------------------------------------------------------
(* Inputs *)
SeqsUpTo(S, n) == UNION {[1..m -> S] : m \in 0..n}
Injective(s) == \A i, j \in 1..Len(s) : s[i] = s[j] => i = j

Keysets == {ks \in SeqsUpTo(Symbols, MaxK) : Injective(ks) \/ Len(ks) <= MaxDupK}

(* selections in buffer order, in reverse order, and all the same *)
SelSeqs(n) ==
  {[i \in 1..n |-> Sel(i)], [i \in 1..n |-> Sel(n + 1 - i)], [i \in 1..n |-> Sel(1)]}

Keys == {<<c>> : c \in Symbols} \cup {<<"z">>, ESC, <<"a", "b">>}

LabelPool == {<<"a">>, <<"b">>, <<"a", "b">>, <<"b", "a">>, ESC}

NoResp == [kind |-> "None", replace_ranges |-> <<>>]
NoOnKey == [set |-> FALSE, sels |-> <<>>, labels |-> <<>>]
NoOrigin == [generated |-> FALSE, keyset |-> <<>>, replace_ranges |-> <<>>]

(* The editor starts a session with --keyset and --sels; the binary can as  *)
(* well be run with --sels, --labels and --key of any content.              *)
InitGenerate ==
  /\ keyset \in Keysets
  /\ \E n \in 0..MaxN : sels \in SelSeqs(n)
  /\ labels = <<>>
  /\ key = NoKey

InitReduce ==
  /\ keyset = <<>>
  /\ \E n \in 0..MaxCand : sels = [i \in 1..n |-> Sel(i)]
  /\ labels \in SeqsUpTo(LabelPool, MaxCand)
  /\ \E k \in Keys : key = SomeKey(k)

Init ==
  /\ (InitGenerate \/ InitReduce)
  /\ pc = "main"
  /\ panic = "none"
  /\ trie = TrieDefault
  /\ grown = 0
  /\ resp = NoResp
  /\ out = <<>>
  /\ onkey = NoOnKey
  /\ origin = NoOrigin
  /\ nkeys = 0

----------------------------------------------------------------------------
(* One iteration of the loop of Trie::grow_repeatedly, run by               *)
(* App::generate_labels when no key is given.                               *)
GrowRepeatedlyStep ==
  /\ pc = "main"
  /\ ~key.some
  /\ grown < Len(sels)
  /\ LET r == grow(trie, keyset, 1)
     IN IF r.st = "ok"
        THEN /\ trie' = r.t
             /\ grown' = grown + 1
             /\ UNCHANGED <<pc, panic>>
        ELSE /\ pc' = "panicked"
             /\ IF r.st = "overflow"
                THEN panic' = "stack overflow"
                \* 0 - 1 on usize: a panic where overflow is checked; where it
                \* wraps, the index usize::MAX is out of range of the empty vector
                ELSE panic' \in {"subtract with overflow", "index out of bounds"}
             /\ UNCHANGED <<trie, grown>>
  /\ UNCHANGED <<keyset, sels, labels, key, resp, out, onkey, origin, nkeys>>

(* The rest of App::generate_labels and Response::into_stdout *)
GenerateLabels ==
  /\ pc = "main"
  /\ ~key.some
  /\ grown = Len(sels)
  /\ LET r == LabelsGenerated(trie, sels)
         o == IntoStdout(r)
     IN /\ resp' = r
        /\ out' = o.cmds
        /\ onkey' = o.onkey
        /\ origin' = [generated |-> TRUE, keyset |-> keyset,
                      replace_ranges |-> r.replace_ranges]
  /\ pc' = "exited"
  /\ UNCHANGED <<keyset, sels, labels, key, panic, trie, grown, nkeys>>

(* App::process with a key: App::reduce and Response::into_stdout *)
ProcessReduce ==
  /\ pc = "main"
  /\ key.some
  /\ LET r == Reduce(sels, labels, key.v)
         o == IntoStdout(r)
     IN /\ resp' = r
        /\ out' = o.cmds
        /\ onkey' = o.onkey
  /\ pc' = "exited"
  /\ UNCHANGED <<keyset, sels, labels, key, panic, trie, grown, origin, nkeys>>

(* The editor runs the on-key callback: a new invocation with the           *)
(* callback's --sels and --labels and the typed key.                        *)
OnKey ==
  /\ pc = "exited"
  /\ onkey.set
  /\ \E k \in Keys : key' = SomeKey(k)
  /\ keyset' = <<>>
  /\ sels' = ParseSels(onkey.sels)
  /\ labels' = ParseLabels(onkey.labels)
  /\ pc' = "main"
  /\ trie' = TrieDefault
  /\ grown' = 0
  /\ resp' = NoResp
  /\ out' = <<>>
  /\ onkey' = NoOnKey
  /\ IF ZipLen(ParseSels(onkey.sels), ParseLabels(onkey.labels)) > 1
     THEN nkeys < MaxKeys /\ nkeys' = nkeys + 1
     ELSE nkeys' = nkeys
  /\ UNCHANGED <<panic, origin>>

Next == GrowRepeatedlyStep \/ GenerateLabels \/ ProcessReduce \/ OnKey

Spec == Init /\ [][Next]_vars

----------------------------------------------------------------------------
(* Vocabulary of the properties *)

IsPrefix(p, q) == Len(p) <= Len(q) /\ SubSeq(q, 1, Len(p)) = p

PrefixFree(ls) == \A i, j \in 1..Len(ls) : i # j => ~IsPrefix(ls[i], ls[j])

(* a generation is running or has run in this invocation *)
Generating == ~key.some

Generated == pc = "exited" /\ resp.kind = "LabelsGenerated"

Reduced == pc = "exited" /\ resp.kind = "Reduced"

(* the candidates App::reduce was called with: sels zipped with labels *)
NCand == ZipLen(sels, labels)

(* the candidates whose label starts with the one-character key <<c>> *)
Hits(c) == {i \in 1..NCand : labels[i] # <<>> /\ labels[i][1] = c}

RECURSIVE FeedAll(_, _, _)
(* reduce() called with the symbols of l from the j-th on, one at a time,  *)
(* each call on the ranges the call before returned                        *)
FeedAll(rr, l, j) ==
  IF j > Len(l) THEN rr
  ELSE FeedAll(Reduce([i \in 1..Len(rr) |-> rr[i].sel],
                      [i \in 1..Len(rr) |-> rr[i].label],
                      <<l[j]>>).replace_ranges, l, j + 1)

RECURSIVE GrowN(_, _, _)
(* n successive grow() calls on t, all of which return *)
GrowN(t, ks, n) == IF n = 0 THEN t ELSE GrowN(grow(t, ks, 1).t, ks, n - 1)

----------------------------------------------------------------------------
(* C1. Prefix-freedom: with a keyset of k >= 1 distinct symbols, after any *)
(* number of completed grow() calls on an empty trie no label returned by  *)
(* labels() is a prefix of, or equal to, another returned label.           *)
C1_PrefixFree ==
  (Generating /\ Len(keyset) >= 1 /\ Injective(keyset)) => PrefixFree(TrieLabels(trie))

(* C1 witness: a grown trie with labels of one and of two symbols *)
C1_Witness ==
  /\ Generating /\ Injective(keyset) /\ Len(keyset) = 3 /\ grown = 6
  /\ \E i, j \in 1..Len(TrieLabels(trie)) :
       Len(TrieLabels(trie)[i]) = 1 /\ Len(TrieLabels(trie)[j]) = 2

(* C2. Label count: the trie has as many leaves as grow() calls have       *)
(* returned, and the generated response holds one (label, sel) pair for    *)
(* every input selection, none dropped by the zip.                         *)
C2_LabelCount ==
  /\ Generating => Len(TrieLabels(trie)) = grown
  /\ Generated => /\ Len(resp.replace_ranges) = Len(sels)
                  /\ \A i \in 1..Len(sels) : resp.replace_ranges[i].sel = sels[i]

(* C2 witness: a generation over a saturated root has returned *)
C2_Witness == Generated /\ Len(keyset) = 2 /\ Len(sels) = 7 /\ grown = 7

(* C3. Full consumption: after a generation with distinct symbols, feeding *)
(* reduce() the symbols of any emitted label one at a time, from the full  *)
(* candidate list, leaves exactly one candidate: the selection the label   *)
(* was paired with.                                                        *)
C3_FullConsumption ==
  (Generated /\ Injective(keyset)) =>
    \A i \in 1..Len(resp.replace_ranges) :
      LET r == FeedAll(resp.replace_ranges, resp.replace_ranges[i].label, 1)
      IN Len(r) = 1 /\ r[1].sel = resp.replace_ranges[i].sel

(* C3 witness: a generation result with a two-symbol label among several *)
C3_Witness ==
  /\ Generated /\ Injective(keyset) /\ Len(sels) >= 5
  /\ sels[1] # sels[2]
  /\ \E i \in 1..Len(resp.replace_ranges) : Len(resp.replace_ranges[i].label) = 2

(* C4. Regression vectors: with the keyset abcd, 4 growths of an empty     *)
(* trie give the labels a b c d and 10 growths give a b ca cb cc cd da db  *)
(* dc dd, in that order.                                                   *)
C4_RegressionVectors ==
  (Generating /\ keyset = <<"a", "b", "c", "d">>) =>
    /\ grown = 4 => TrieLabels(trie) = << <<"a">>, <<"b">>, <<"c">>, <<"d">> >>
    /\ grown = 10 => TrieLabels(trie) =
         << <<"a">>, <<"b">>, <<"c", "a">>, <<"c", "b">>, <<"c", "c">>, <<"c", "d">>,
            <<"d", "a">>, <<"d", "b">>, <<"d", "c">>, <<"d", "d">> >>

(* C4 witness: the tenth growth with abcd has returned *)
C4_Witness == Generating /\ keyset = <<"a", "b", "c", "d">> /\ grown = 10

(* C5. Empty keyset: a generation with no symbol and at least one          *)
(* selection ends with a ConfigurationError outcome and no output; it does *)
(* not die on an index computation.                                        *)
C5_EmptyKeysetIsConfigurationError ==
  (Generating /\ keyset = <<>> /\ Len(sels) >= 1) =>
    /\ panic = "none"
    /\ pc # "main" => (resp.kind = "ConfigurationError" /\ out = <<>>)

(* C6. Terminal states: in a session started by a generation with distinct *)
(* symbols, after a reduce step on more than one candidate the next key is *)
(* asked for exactly when more than one candidate remains; with none, with *)
(* one, and after the abort key no callback is left.                       *)
C6_TerminalStates ==
  (origin.generated /\ Injective(origin.keyset) /\ pc = "exited" /\ key.some /\ NCand > 1) =>
    (onkey.set <=> (resp.kind = "Reduced" /\ Len(resp.replace_ranges) > 1))

(* C7. Reduce step: for a typed symbol c other than the abort key the      *)
(* result holds exactly the candidates whose label starts with c, in their *)
(* input order, each with its selection and with its label less that one   *)
(* leading symbol.                                                         *)
C7_ReduceStep ==
  (Reduced /\ Len(key.v) = 1) =>
    LET c == key.v[1]
        rr == resp.replace_ranges
    IN /\ Len(rr) = Cardinality(Hits(c))
       /\ \A i \in Hits(c) :
            LET j == Cardinality({h \in Hits(c) : h <= i})
            IN rr[j].sel = sels[i] /\ <<c>> \o rr[j].label = labels[i]

(* C7 witness: a step that keeps several candidates and drops others *)
C7_Witness ==
  /\ Reduced /\ Len(key.v) = 1
  /\ Cardinality(Hits(key.v[1])) >= 2
  /\ Cardinality(Hits(key.v[1])) < NCand
  /\ \E i \in Hits(key.v[1]) : Len(labels[i]) = 2 /\ i > 1 /\ (i - 1) \notin Hits(key.v[1])

(* C8. Cancellation: the key "<esc>" gives Response::Cleanup with no       *)
(* candidate left, whatever the candidates are.                            *)
C8_Cancellation ==
  (pc = "exited" /\ key.some /\ key.v = ESC) =>
    /\ resp = [kind |-> "Cleanup", replace_ranges |-> <<>>]
    /\ out = <<"cleanup">>
    /\ ~onkey.set

(* C8 witness: the abort key typed while a label starts with its text *)
C8_Witness ==
  /\ pc = "exited" /\ key.some /\ key.v = ESC
  /\ NCand >= 1 /\ \E i \in 1..NCand : StripPrefix(labels[i], ESC).some

(* C8 witness: the abort key typed with no candidate at all *)
C8_WitnessEmpty == pc = "exited" /\ key.some /\ key.v = ESC /\ NCand = 0

(* C9. Miss: a typed symbol other than the abort key that starts no        *)
(* candidate's label gives Response::Reduced with no range; a reduction    *)
(* never dies.                                                             *)
C9_Miss ==
  (key.some /\ Len(key.v) = 1 /\ Hits(key.v[1]) = {}) =>
    /\ panic = "none"
    /\ pc \in {"main", "exited"}
    /\ pc = "exited" => resp = [kind |-> "Reduced", replace_ranges |-> <<>>]

(* C9 witness: a miss on several candidates *)
C9_Witness ==
  /\ pc = "exited" /\ key.some /\ Len(key.v) = 1 /\ Hits(key.v[1]) = {}
  /\ NCand >= 2

(* C10. Positional pairing: the i-th range of a generation pairs the i-th  *)
(* label of the traversal with the i-th input selection, and the labels    *)
(* are those of Len(sels) growths with the keyset, whatever the selections *)
(* are.                                                                    *)
C10_PositionalPairing ==
  Generated =>
    LET ls == TrieLabels(GrowN(TrieDefault, keyset, Len(sels)))
    IN /\ [i \in 1..Len(resp.replace_ranges) |-> resp.replace_ranges[i].sel] = sels
       /\ [i \in 1..Len(resp.replace_ranges) |-> resp.replace_ranges[i].label] = ls

(* C10 witness: a generation over selections given in reverse buffer order *)
C10_Witness ==
  /\ Generated /\ Len(sels) >= 5 /\ Len(keyset) >= 2
  /\ sels[1].start.line > sels[2].start.line

----------------------------------------------------------------------------
(* C11. First-level fill: with a keyset s_1..s_k, k >= 1, the labels after *)
(* N <= k growths of an empty trie are the one-symbol labels s_1, ..., s_N *)
(* in that order; no growth leaves the empty trie and no label, one growth *)
(* gives the label s_1 alone.                                              *)
C11_FirstLevelFill ==
  (Generating /\ Len(keyset) >= 1 /\ grown <= Len(keyset)) =>
    /\ TrieLabels(trie) = [i \in 1..grown |-> <<keyset[i]>>]
    /\ grown = 0 => trie = TrieDefault

(* C11 witness: the first level of a three-symbol keyset just filled *)
C11_Witness ==
  Generating /\ Len(keyset) = 3 /\ Injective(keyset) /\ grown = 3 /\ keyset[1] # "a"

(* C12. Termination of the growth: with a keyset of k >= 1 symbols no      *)
(* grow() call on the root recurses without bound, so the process never    *)
(* dies of a stack overflow and every iteration of grow_repeatedly ends.   *)
C12_GrowthTerminates ==
  (Generating /\ Len(keyset) >= 1) => (panic # "stack overflow" /\ pc # "panicked")

RECURSIVE WellShaped(_, _)
(* at most k children below every node, the i-th keyed by the i-th symbol *)
WellShaped(node, ks) ==
  /\ Len(node.below) <= Len(ks)
  /\ \A i \in 1..Len(node.below) :
       node.below[i].key = ks[i] /\ WellShaped(node.below[i], ks)

(* C13. Node shape: after any number of grow() calls with a keyset of k    *)
(* symbols every node, the root included, has at most k children and its   *)
(* i-th child carries the i-th symbol of the keyset; with distinct symbols *)
(* the keys of siblings are pairwise distinct.                             *)
C13_NodeShape ==
  (Generating /\ Len(keyset) >= 1) => WellShaped(trie, keyset)

(* C13 witness: a trie of three levels *)
C13_Witness ==
  /\ Generating /\ Len(keyset) = 2 /\ Injective(keyset) /\ grown = 7
  /\ \E l \in {TrieLabels(trie)[i] : i \in 1..Len(TrieLabels(trie))} : Len(l) = 3

(* the k * (k - 1) two-symbol labels that do not start with the last symbol *)
TwoSymbolLabels(ks) ==
  [n \in 1..(Len(ks) * (Len(ks) - 1)) |->
     <<ks[((n - 1) \div Len(ks)) + 1], ks[((n - 1) % Len(ks)) + 1]>>]

(* the labels of ls that do not start with the symbol c, in their order *)
NotUnder(ls, c) == LET Other(l) == l[1] # c IN SelectSeq(ls, Other)

(* C15. Right-skew fallback: with k >= 2 distinct symbols, after N >= k*k  *)
(* growths the labels that do not start with the last symbol are exactly   *)
(* the k * (k - 1) two-symbol labels s_i s_j, i < k, and one more growth   *)
(* changes nothing but the subtree of the last child of the root.          *)
C15_RightSkew ==
  (Generating /\ Injective(keyset) /\ Len(keyset) >= 2
     /\ grown >= Len(keyset) * Len(keyset)) =>
    /\ NotUnder(TrieLabels(trie), keyset[Len(keyset)]) = TwoSymbolLabels(keyset)
    /\ LET r == grow(trie, keyset, 1)
       IN /\ r.st = "ok"
          /\ Len(r.t.below) = Len(keyset)
          /\ \A i \in 1..(Len(keyset) - 1) : r.t.below[i] = trie.below[i]
          /\ r.t.below[Len(keyset)] # trie.below[Len(keyset)]

(* C15 witness: a growth past k * k with three symbols *)
C15_Witness == Generating /\ Injective(keyset) /\ Len(keyset) = 3 /\ grown = 10

(* the labels C16 expects under the i-th symbol after n growths, k < n <= k*k *)
SecondLevelUnder(ks, n, i) ==
  LET k == Len(ks)
      q == (n - k) \div (k - 1)
      r == (n - k) % (k - 1)
  IN IF i > k - q THEN [j \in 1..k |-> <<ks[i], ks[j]>>]
     ELSE IF r > 0 /\ i = k - q THEN [j \in 1..(r + 1) |-> <<ks[i], ks[j]>>]
     ELSE <<<<ks[i]>>>>

RECURSIVE SecondLevelFrom(_, _, _)
SecondLevelFrom(ks, n, i) ==
  IF i > Len(ks) THEN <<>>
  ELSE SecondLevelUnder(ks, n, i) \o SecondLevelFrom(ks, n, i + 1)

(* C16. Second-level fill, last to first: with k >= 2 distinct symbols and *)
(* k < N <= k*k, e = N - k, q = e div (k-1), r = e mod (k-1): the last q    *)
(* first-level symbols carry all k two-symbol labels each, the symbol      *)
(* before them carries the r + 1 labels of the first r + 1 symbols when    *)
(* r > 0, every earlier symbol is a label itself, and no label has more    *)
(* than two symbols.                                                       *)
C16_SecondLevelFill ==
  (Generating /\ Injective(keyset) /\ Len(keyset) >= 2
     /\ grown > Len(keyset) /\ grown <= Len(keyset) * Len(keyset)) =>
    /\ TrieLabels(trie) = SecondLevelFrom(keyset, grown, 1)
    /\ \A i \in 1..Len(TrieLabels(trie)) : Len(TrieLabels(trie)[i]) <= 2

(* C16 witness: four symbols, nine growths: q = 1 and r = 2 *)
C16_Witness == Generating /\ Injective(keyset) /\ Len(keyset) = 4 /\ grown = 9

(* the index of the symbol c in the keyset *)
SymbolIndex(ks, c) == CHOOSE i \in 1..Len(ks) : ks[i] = c

RECURSIVE LexLess(_, _, _)
(* p before q in the lexicographic order of the symbols' keyset indices *)
LexLess(p, q, ks) ==
  IF q = <<>> THEN FALSE
  ELSE IF p = <<>> THEN TRUE
  ELSE IF p[1] = q[1] THEN LexLess(Tail(p), Tail(q), ks)
  ELSE SymbolIndex(ks, p[1]) < SymbolIndex(ks, q[1])

(* C19. Emission order: with distinct symbols the labels returned by       *)
(* labels() after any number of growths are strictly increasing in the     *)
(* lexicographic order of the keyset indices, hence pairwise distinct.     *)
C19_LexicographicOrder ==
  (Generating /\ Injective(keyset)) =>
    \A i, j \in 1..Len(TrieLabels(trie)) :
      i < j => LexLess(TrieLabels(trie)[i], TrieLabels(trie)[j], keyset)

(* C19 witness: labels of one, two and three symbols *)
C19_Witness ==
  /\ Generating /\ Injective(keyset) /\ Len(keyset) = 2 /\ grown = 6
  /\ keyset[1] = "d"
  /\ \E i \in 1..Len(TrieLabels(trie)) : Len(TrieLabels(trie)[i]) = 3

(* ls with its p-th element taken out *)
Without(ls, p) == SubSeq(ls, 1, p - 1) \o SubSeq(ls, p + 1, Len(ls))

(* after holds the labels of before and one new label *)
AddsOne(before, after) ==
  /\ Len(after) = Len(before) + 1
  /\ \E p \in 1..Len(after) :
       /\ Without(after, p) = before
       /\ \A i \in 1..Len(before) : before[i] # after[p]

(* after holds the labels of before but one, L, replaced by L s_1 and L s_2 *)
SplitsOne(before, after, ks) ==
  /\ Len(after) = Len(before) + 1
  /\ \E p \in 1..Len(before) :
       after = SubSeq(before, 1, p - 1)
                 \o <<Append(before[p], ks[1]), Append(before[p], ks[2])>>
                 \o SubSeq(before, p + 1, Len(before))

(* C18. Growth only extends: with k >= 2 distinct symbols one grow() call  *)
(* on the root either keeps every label and adds one new label, or         *)
(* replaces one label L by L s_1 and L s_2 and keeps the others; every     *)
(* label before the call is a prefix of a label after it.                  *)
C18_GrowthExtends ==
  (Generating /\ Injective(keyset) /\ Len(keyset) >= 2) =>
    LET r == grow(trie, keyset, 1)
        before == TrieLabels(trie)
        after == TrieLabels(r.t)
    IN /\ r.st = "ok"
       /\ AddsOne(before, after) \/ SplitsOne(before, after, keyset)
       /\ \A i \in 1..Len(before) : \E j \in 1..Len(after) : IsPrefix(before[i], after[j])

(* C18 witness: a trie whose next growth turns a leaf into a node *)
C18_Witness ==
  /\ Generating /\ Injective(keyset) /\ Len(keyset) = 3 /\ grown = 5
  /\ SplitsOne(TrieLabels(trie), TrieLabels(grow(trie, keyset, 1).t), keyset)
  /\ ~AddsOne(TrieLabels(trie), TrieLabels(grow(trie, keyset, 1).t))

RECURSIVE InnerNodesBranch(_)
(* every node below this one that has a child has at least two *)
InnerNodesBranch(node) ==
  \A i \in 1..Len(node.below) :
    /\ Len(node.below[i].below) # 1
    /\ InnerNodesBranch(node.below[i])

(* what remains Active: several candidates, no empty label, prefix-free *)
ActiveRanges(rr) ==
  /\ Len(rr) > 1
  /\ \A i \in 1..Len(rr) : rr[i].label # <<>>
  /\ PrefixFree([i \in 1..Len(rr) |-> rr[i].label])

(* C17. Resolution at the last symbol: with k >= 2 distinct symbols, after *)
(* every completed growth every node but the root that has a child has at  *)
(* least two; after a generation for N >= 2 selections, typing a proper    *)
(* non-empty prefix of an emitted label leaves more than one candidate,    *)
(* all with non-empty, prefix-free labels; and the one candidate of a      *)
(* Resolved outcome of such a session has an empty label.                  *)
C17_ResolvedAtLastSymbol ==
  /\ (Generating /\ Injective(keyset) /\ Len(keyset) >= 2) => InnerNodesBranch(trie)
  /\ (Generated /\ Injective(keyset) /\ Len(keyset) >= 2 /\ Len(sels) >= 2) =>
       \A i \in 1..Len(resp.replace_ranges) :
         \A m \in 1..(Len(resp.replace_ranges[i].label) - 1) :
           ActiveRanges(FeedAll(resp.replace_ranges,
                                SubSeq(resp.replace_ranges[i].label, 1, m), 1))
  /\ (origin.generated /\ Injective(origin.keyset) /\ Len(origin.keyset) >= 2
        /\ Reduced /\ Len(resp.replace_ranges) = 1) =>
       resp.replace_ranges[1].label = <<>>

(* C17 witness: a session resolved by the second symbol of a label *)
C17_Witness ==
  /\ origin.generated /\ Injective(origin.keyset) /\ Len(origin.keyset) >= 2
  /\ Reduced /\ Len(resp.replace_ranges) = 1
  /\ NCand > 1 /\ NCand < Len(origin.replace_ranges)

(* a session started by a generation with at least two distinct symbols *)
Session == origin.generated /\ Injective(origin.keyset) /\ Len(origin.keyset) >= 2

(* the length of the longest label of the ranges rr, 0 for none *)
LongestLabel(rr) ==
  IF rr = <<>> THEN 0
  ELSE CHOOSE n \in {Len(rr[i].label) : i \in 1..Len(rr)} :
         \A i \in 1..Len(rr) : Len(rr[i].label) <= n

(* C14. Strict narrowing: in a session started by a generation with k >= 2 *)
(* distinct symbols, a reduce step on more than one candidate with a key   *)
(* other than the abort key returns fewer candidates than it was given,    *)
(* and with a one-symbol key every surviving label is one symbol shorter;  *)
(* so more than one candidate remains only while fewer keys were typed     *)
(* than the longest emitted label has symbols, whatever the keys are.      *)
C14_StrictNarrowing ==
  /\ (Session /\ Reduced /\ NCand > 1) =>
       /\ Len(resp.replace_ranges) < NCand
       /\ Len(key.v) = 1 =>
            \A i \in Hits(key.v[1]) :
              Len(resp.replace_ranges[Cardinality({h \in Hits(key.v[1]) : h <= i})].label)
                + 1 = Len(labels[i])
  /\ (Session /\ pc = "exited" /\ Len(resp.replace_ranges) > 1) =>
       nkeys < LongestLabel(origin.replace_ranges)

(* C14 witness: several candidates remain after the second key *)
C14_Witness ==
  /\ Session /\ Reduced /\ NCand > 1 /\ Len(key.v) = 1
  /\ Len(resp.replace_ranges) > 1 /\ nkeys = 2

====
